---- MODULE Spec2Model ----
(***************************************************************************)
(* A model of elasticode's reconciliation engine: the resource handlers,   *)
(* the diff engine (differ.py), the planner (planner.py) and the applier   *)
(* (applier.py), run against an Elasticsearch cluster that is modelled as  *)
(* a store of resource bodies.                                             *)
(***************************************************************************)
EXTENDS Integers, Sequences, FiniteSets, TLC

VARIABLES
    files,           \* the resource directory: <<kind, name>> -> JSON body
    resource_types,  \* the type filter handed to generate_plan (None or a list)
    resource_names,  \* the name filter handed to generate_plan (None or a list)
    cluster,         \* the cluster: <<kind, name>> -> stored body, or None
    pc,              \* position of the run
    plan,            \* the Plan returned by the last generate_plan, or None
    diffs,           \* the DiffResults computed by the last generate_plan
    changes,         \* apply_plan's local list of actionable items
    idx,             \* apply_plan's loop position (items handled so far)
    all_ok,          \* apply_plan's local flag
    result,          \* apply_plan's return value, or None
    console,         \* lines printed by apply_plan
    replan,          \* the Plan generated again after apply_plan returned, or None
    calls,           \* client calls issued by the operation in progress
    op,              \* the last direct handler call and its outcome, or None
    puts,            \* handler.put invocations of the operation in progress
    exit             \* how the CLI command ended (command, exit code), or None

vars == <<files, resource_types, resource_names, cluster, pc, plan, diffs,
          changes, idx, all_ok, result, console, replan, calls, op, puts, exit>>

-----------------------------------------------------------------------------
(* Bounds of the model *)

\* longest JSON list in a body
MaxListLen == 2
\* most top-level keys in a body of the diff scenarios
MaxKeys == 2
\* most resource files in the resource directory
MaxFiles == 3
\* most kinds a type filter of the loader scenarios lists
MaxFilterLen == 2
\* most resource files in the resource directory of the loader scenarios
MaxLoadFiles == 2

-----------------------------------------------------------------------------
(* JSON values.  Every value is a record of the same shape, so that any two *)
(* values can be compared.                                                  *)

EmptyDict == [k \in {} |-> 0]

\* Python's None: an absent resource, a missing desired_body, no filter
None == [t |-> "None"]

JNull == [t |-> "null", n |-> 0, l |-> <<>>, d |-> EmptyDict]
JInt(n) == [t |-> "int", n |-> n, l |-> <<>>, d |-> EmptyDict]
JList(s) == [t |-> "list", n |-> 0, l |-> s, d |-> EmptyDict]
JDict(f) == [t |-> "dict", n |-> 0, l |-> <<>>, d |-> f]

Range(s) == {s[i] : i \in DOMAIN s}

\* dict(body) without key k: body.pop(k, None)
Pop(body, k) == [x \in (DOMAIN body) \ {k} |-> body[x]]

RECURSIVE PopAll(_, _)
PopAll(body, ks) ==
    IF ks = <<>> THEN body ELSE PopAll(Pop(body, Head(ks)), Tail(ks))

\* body with body[k] = v
Put(body, k, v) == [x \in (DOMAIN body) \cup {k} |-> IF x = k THEN v ELSE body[x]]

-----------------------------------------------------------------------------
(* Resource kinds and actions *)

INDEX_TEMPLATE == "index_templates"
COMPONENT_TEMPLATE == "component_templates"
ILM_POLICY == "ilm_policies"
INGEST_PIPELINE == "ingest_pipelines"
INDEX == "indices"

\* list(ResourceType), in definition order.  INDEX is the member that
\* resources/__init__.py and resources/index.py refer to; its value is the
\* Index handler's directory name.
ResourceType ==
    <<INDEX_TEMPLATE, COMPONENT_TEMPLATE, ILM_POLICY, INGEST_PIPELINE, INDEX>>

Kinds == Range(ResourceType)

CREATE == "create"
UPDATE == "update"
NO_CHANGE == "no_change"

\* the handler class registered for each kind
HANDLER_CLASSES ==
    (INDEX_TEMPLATE :> "IndexTemplateHandler")
    @@ (COMPONENT_TEMPLATE :> "ComponentTemplateHandler")
    @@ (ILM_POLICY :> "IlmPolicyHandler")
    @@ (INGEST_PIPELINE :> "IngestPipelineHandler")
    @@ (INDEX :> "IndexHandler")

\* (mutant) component templates are served by the index template handler
get_handler_shared(resource_type) ==
    IF resource_type = COMPONENT_TEMPLATE THEN "IndexTemplateHandler"
    ELSE HANDLER_CLASSES[resource_type]

get_handler(resource_type) == HANDLER_CLASSES[resource_type]

\* the property resource_type of each handler class
resource_type(handler) ==
    CASE handler = "IndexTemplateHandler" -> INDEX_TEMPLATE
      [] handler = "ComponentTemplateHandler" -> COMPONENT_TEMPLATE
      [] handler = "IlmPolicyHandler" -> ILM_POLICY
      [] handler = "IngestPipelineHandler" -> INGEST_PIPELINE
      [] handler = "IndexHandler" -> INDEX

\* the property directory_name of each handler class
directory_name(handler) ==
    CASE handler = "IndexTemplateHandler" -> "index_templates"
      [] handler = "ComponentTemplateHandler" -> "component_templates"
      [] handler = "IlmPolicyHandler" -> "ilm_policies"
      [] handler = "IngestPipelineHandler" -> "ingest_pipelines"
      [] handler = "IndexHandler" -> "indices"

-----------------------------------------------------------------------------
(* normalize, per handler *)

IlmServerManagedFields == <<"version", "modified_date", "modified_date_millis", "in_use_by">>

IndexServerManagedFields ==
    <<"creation_date", "uuid", "version", "provided_name", "routing_num_shards",
      "routing_partition_size", "shard", "store">>

\* (mutant) version is kept
TemplateNormalizeKeep(body) == body

TemplateNormalize(body) == PopAll(body, <<"version">>)

\* (mutant) nothing is stripped
IlmNormalizeKeep(body) == body

\* (mutant) only version is stripped
IlmNormalizeVersionOnly(body) == PopAll(body, <<"version">>)

IlmNormalize(body) == PopAll(body, IlmServerManagedFields)

\* IndexHandler.normalize: the server-managed fields are popped from
\* settings.index, and settings is rebuilt as {"index": index_settings}
IndexNormalize(body) ==
    IF "settings" \in DOMAIN body /\ "index" \in DOMAIN body["settings"].d
    THEN LET index_settings ==
                 PopAll(body["settings"].d["index"].d, IndexServerManagedFields)
         IN  Put(body, "settings", JDict([k \in {"index"} |-> JDict(index_settings)]))
    ELSE body

normalize(handler, body) ==
    CASE handler = "IndexHandler" -> IndexNormalize(body)
      [] handler = "IlmPolicyHandler" -> IlmNormalize(body)
      [] OTHER -> TemplateNormalize(body)

-----------------------------------------------------------------------------
(* json.dumps of a key.  A key is named by a string; CodePoints gives the   *)
(* characters it is made of.                                                *)

CodePoints(k) ==
    CASE k = "version" -> <<118, 101, 114, 115, 105, 111, 110>>
      [] k = "priority" -> <<112, 114, 105, 111, 114, 105, 116, 121>>
      [] k = "patterns" -> <<112, 97, 116, 116, 101, 114, 110, 115>>
      [] k = "settings" -> <<115, 101, 116, 116, 105, 110, 103, 115>>
      [] k = "mappings" -> <<109, 97, 112, 112, 105, 110, 103, 115>>
      [] k = "modified_date" -> <<109, 111, 100, 105, 102, 105, 101, 100, 95, 100, 97, 116, 101>>
      \* "caf" followed by U+00E9 (e with acute accent)
      [] k = "caf_e9" -> <<99, 97, 102, 233>>
      [] OTHER -> <<63>>

HexDigit(d) == IF d < 10 THEN 48 + d ELSE 87 + d

\* \uXXXX
UEscape(c) ==
    <<92, 117, HexDigit((c \div 4096) % 16), HexDigit((c \div 256) % 16),
      HexDigit((c \div 16) % 16), HexDigit(c % 16)>>

\* json.encoder.py_encode_basestring_ascii on one character (ensure_ascii=True)
EscapeChar(c) ==
    CASE c = 34 -> <<92, 34>>
      [] c = 92 -> <<92, 92>>
      [] c = 10 -> <<92, 110>>
      [] c = 13 -> <<92, 114>>
      [] c = 9 -> <<92, 116>>
      [] c = 12 -> <<92, 102>>
      [] c = 8 -> <<92, 98>>
      [] c < 32 \/ c > 126 -> UEscape(c)
      [] OTHER -> <<c>>

RECURSIVE EscapeAll(_)
EscapeAll(cs) == IF cs = <<>> THEN <<>> ELSE EscapeChar(Head(cs)) \o EscapeAll(Tail(cs))

\* json.dumps(key)
json_dumps_str(cs) == <<34>> \o EscapeAll(cs) \o <<34>>

\* needle in haystack (Python's `in` on strings)
Contains(haystack, needle) ==
    \E i \in 0..(Len(haystack) - Len(needle)) :
        \A j \in 1..Len(needle) : haystack[i + j] = needle[j]

-----------------------------------------------------------------------------
(* The diff narrative: a sequence of lines ("\n".join(lines)).  A line keeps *)
(* its leading marker, the path or the text it shows and the value printed. *)

Line(tag, path, text, val) == [tag |-> tag, path |-> path, text |-> text, val |-> val]

\* the order in which the keys of a dict are visited
KeyOrder ==
    <<"version", "modified_date", "priority", "patterns", "caf_e9", "settings",
      "mappings", "index", "uuid", "number_of_shards", "analysis">>

RECURSIVE CreateKeyLines(_, _)
CreateKeyLines(body, ks) ==
    IF ks = <<>> THEN <<>>
    ELSE LET k == Head(ks)
             here == IF k \in DOMAIN body
                     THEN <<Line("+", <<>>, <<32, 32>> \o json_dumps_str(CodePoints(k)) \o <<58, 32>>,
                                 body[k])>>
                     ELSE <<>>
         IN  here \o CreateKeyLines(body, Tail(ks))

\* _format_create_diff: json.dumps(body, indent=2), every line prefixed "+ "
format_create_diff(body) ==
    IF DOMAIN body = {}
    THEN <<Line("+", <<>>, <<123, 125>>, JNull)>>
    ELSE <<Line("+", <<>>, <<123>>, JNull)>>
         \o CreateKeyLines(body, KeyOrder)
         \o <<Line("+", <<>>, <<125>>, JNull)>>

-----------------------------------------------------------------------------
(* DeepDiff(t1, t2, ignore_order=True, verbose_level=2), as the sequence of *)
(* the changes it reports.  With ignore_order the items of two lists are    *)
(* compared through the sets of their hashes, and repetitions are not       *)
(* reported (report_repetition is left at False).                           *)

Change(cat, path, old, new) == [cat |-> cat, path |-> path, old |-> old, new |-> new]

\* the first index of each item of l1 that has no equal item in l2
Unmatched(l1, l2) ==
    SelectSeq([i \in 1..Len(l1) |-> i],
              LAMBDA i : l1[i] \notin Range(l2) /\ \A j \in 1..(i - 1) : l1[j] # l1[i])

ListChanges(cat, path, l1, l2) ==
    LET is == Unmatched(l1, l2)
    IN  [x \in 1..Len(is) |->
            IF cat = "iterable_item_removed"
            THEN Change(cat, Append(path, ToString(is[x] - 1)), JInt(l1[is[x]]), JNull)
            ELSE Change(cat, Append(path, ToString(is[x] - 1)), JNull, JInt(l1[is[x]]))]

RECURSIVE DeepDiffAt(_, _, _), DiffKeys(_, _, _, _)
DeepDiffAt(path, t1, t2) ==
    IF t1.t # t2.t THEN <<Change("type_changes", path, t1, t2)>>
    ELSE CASE t1.t = "int" ->
                 IF t1.n # t2.n THEN <<Change("values_changed", path, t1, t2)>> ELSE <<>>
           [] t1.t = "list" ->
                 ListChanges("iterable_item_removed", path, t1.l, t2.l)
                 \o ListChanges("iterable_item_added", path, t2.l, t1.l)
           [] t1.t = "dict" -> DiffKeys(path, t1.d, t2.d, KeyOrder)
           [] OTHER -> <<>>

DiffKeys(path, d1, d2, ks) ==
    IF ks = <<>> THEN <<>>
    ELSE LET k == Head(ks)
             here ==
                 CASE k \in DOMAIN d1 /\ k \in DOMAIN d2 ->
                          DeepDiffAt(Append(path, k), d1[k], d2[k])
                   [] k \in DOMAIN d1 /\ k \notin DOMAIN d2 ->
                          <<Change("dictionary_item_removed", Append(path, k), d1[k], JNull)>>
                   [] k \notin DOMAIN d1 /\ k \in DOMAIN d2 ->
                          <<Change("dictionary_item_added", Append(path, k), JNull, d2[k])>>
                   [] OTHER -> <<>>
         IN  here \o DiffKeys(path, d1, d2, Tail(ks))

\* (mutant) a key whose value is null counts as absent
DeepDiffNullAbsent(t1, t2) ==
    DeepDiffAt(<<>>, JDict([k \in {x \in DOMAIN t1 : t1[x] # JNull} |-> t1[k]]),
               JDict([k \in {x \in DOMAIN t2 : t2[x] # JNull} |-> t2[k]]))

DeepDiff(t1, t2) == DeepDiffAt(<<>>, JDict(t1), JDict(t2))

\* the lines of one category of changes
RECURSIVE ChangeLines(_, _)
ChangeLines(cs, cat) ==
    IF cs = <<>> THEN <<>>
    ELSE LET c == Head(cs)
             here ==
                 IF c.cat # cat THEN <<>>
                 ELSE CASE cat \in {"values_changed", "type_changes"} ->
                               <<Line("~", c.path, <<>>, JNull),
                                 Line("-", c.path, <<>>, c.old),
                                 Line("+", c.path, <<>>, c.new)>>
                        [] cat \in {"dictionary_item_added", "iterable_item_added"} ->
                               <<Line("+", c.path, <<>>, c.new)>>
                        [] OTHER -> <<Line("-", c.path, <<>>, c.old)>>
         IN  here \o ChangeLines(Tail(cs), cat)

\* _format_update_diff: the six categories it reads, in its order
format_update_diff(deep_diff) ==
    ChangeLines(deep_diff, "values_changed")
    \o ChangeLines(deep_diff, "dictionary_item_added")
    \o ChangeLines(deep_diff, "dictionary_item_removed")
    \o ChangeLines(deep_diff, "iterable_item_added")
    \o ChangeLines(deep_diff, "iterable_item_removed")
    \o ChangeLines(deep_diff, "type_changes")

-----------------------------------------------------------------------------
(* diff_resource *)

DiffResult(name, rtype, action, desired, current, details) ==
    [resource_name |-> name, resource_type |-> rtype, action |-> action,
     desired |-> desired, current |-> current, diff_details |-> details]

\* desired: a DesiredResource; current: what handler.get(desired.name) returned
diff_resource(desired, current) ==
    LET handler == get_handler(desired.resource_type)
    IN  IF current = None
        THEN DiffResult(desired.name, desired.resource_type, CREATE, desired.body, None,
                        format_create_diff(desired.body))
        ELSE LET normalized_desired == normalize(handler, desired.body)
                 normalized_current == normalize(handler, current)
                 deep_diff == DeepDiff(normalized_current, normalized_desired)
             IN  IF deep_diff = <<>>
                 THEN DiffResult(desired.name, desired.resource_type, NO_CHANGE,
                                 desired.body, current, <<>>)
                 ELSE DiffResult(desired.name, desired.resource_type, UPDATE,
                                 desired.body, current, format_update_diff(deep_diff))

-----------------------------------------------------------------------------
(* The cluster, seen through the Elasticsearch client *)

\* the client method each handler calls
ClientApi(handler, method) ==
    CASE handler = "IndexTemplateHandler" ->
             (CASE method = "get" -> "indices.get_index_template"
                [] method = "put" -> "indices.put_index_template"
                [] OTHER -> "indices.delete_index_template")
      [] handler = "ComponentTemplateHandler" ->
             (CASE method = "get" -> "cluster.get_component_template"
                [] method = "put" -> "cluster.put_component_template"
                [] OTHER -> "cluster.delete_component_template")
      [] handler = "IlmPolicyHandler" ->
             (CASE method = "get" -> "ilm.get_lifecycle"
                [] method = "put" -> "ilm.put_lifecycle"
                [] OTHER -> "ilm.delete_lifecycle")
      [] handler = "IngestPipelineHandler" ->
             (CASE method = "get" -> "ingest.get_pipeline"
                [] method = "put" -> "ingest.put_pipeline"
                [] OTHER -> "ingest.delete_pipeline")
      [] OTHER ->
             (CASE method = "get" -> "indices.get"
                [] method = "exists" -> "indices.exists"
                [] OTHER -> "indices.create")

Call(api, name) == [api |-> api, name |-> name]

WriteApis ==
    {"indices.put_index_template", "cluster.put_component_template", "ilm.put_lifecycle",
     "ingest.put_pipeline", "indices.create"}

DeleteApis ==
    {"indices.delete_index_template", "cluster.delete_component_template",
     "ilm.delete_lifecycle", "ingest.delete_pipeline", "indices.delete"}

\* What the cluster keeps of a body written to it: the body, with the fields
\* the server manages set by the server (a lifecycle policy's version, an
\* index's uuid).
ServerStore(kind, body) ==
    CASE kind = ILM_POLICY -> Put(body, "version", JInt(1))
      [] kind = INDEX /\ "settings" \in DOMAIN body
                      /\ "index" \in DOMAIN body["settings"].d ->
             Put(body, "settings",
                 JDict(Put(body["settings"].d, "index",
                           JDict(Put(body["settings"].d["index"].d, "uuid", JInt(1))))))
      [] OTHER -> body

\* handler.get(name): the stored body, or None when the cluster has none
HandlerGet(c, kind, name) == c[<<kind, name>>]

\* (mutant) an error undoes what the cluster holds
OutcomeRollback(c, cs, error) ==
    [cluster |-> IF error = "" THEN c ELSE [id \in DOMAIN c |-> None],
     calls |-> cs, error |-> error]

\* what a handler call leaves: the cluster, the client calls made, the
\* exception raised ("" for none)
Outcome(c, cs, error) == [cluster |-> c, calls |-> cs, error |-> error]

\* (mutant) put creates the index without the existence check
IndexPutOverwrite(c, name, body, fault) ==
    LET create == Call("indices.create", name)
    IN  IF fault THEN Outcome(c, <<create>>, "TransportError")
        ELSE Outcome([c EXCEPT ![<<"indices", name>>] = body], <<create>>, "")

\* IndexHandler.put: refuses when the index exists, creates it otherwise.
\* fault: the first client call raises a transport error.
IndexPut(c, name, body, fault) ==
    LET exists == Call(ClientApi("IndexHandler", "exists"), name)
        create == Call(ClientApi("IndexHandler", "create"), name)
    IN  CASE fault -> Outcome(c, <<exists>>, "TransportError")
          [] ~fault /\ c[<<INDEX, name>>] # None -> Outcome(c, <<exists>>, "IndexUpdateError")
          [] OTHER -> Outcome([c EXCEPT ![<<INDEX, name>>] = ServerStore(INDEX, body)],
                              <<exists, create>>, "")

\* put of the other handlers: one client call that creates or overwrites
OverwritePut(c, kind, name, body, fault) ==
    LET call == Call(ClientApi(get_handler(kind), "put"), name)
    IN  IF fault THEN Outcome(c, <<call>>, "TransportError")
        ELSE Outcome([c EXCEPT ![<<kind, name>>] = ServerStore(kind, body)], <<call>>, "")

HandlerPut(c, kind, name, body, fault) ==
    IF get_handler(kind) = "IndexHandler"
    THEN IndexPut(c, name, body, fault)
    ELSE OverwritePut(c, kind, name, body, fault)

\* (mutant) delete is passed on to the cluster
IndexDeleteIssued(c, name) ==
    Outcome([c EXCEPT ![<<"indices", name>>] = None], <<Call("indices.delete", name)>>, "")

\* IndexHandler.delete: raises, calls nothing
IndexDelete(c, name) == Outcome(c, <<>>, "NotImplementedError")

\* delete of the other handlers: one client call; the cluster answers
\* not-found for a resource it does not hold
OverwriteDelete(c, kind, name) ==
    LET call == Call(ClientApi(get_handler(kind), "delete"), name)
    IN  IF c[<<kind, name>>] = None THEN Outcome(c, <<call>>, "NotFoundError")
        ELSE Outcome([c EXCEPT ![<<kind, name>>] = None], <<call>>, "")

HandlerDelete(c, kind, name) ==
    IF get_handler(kind) = "IndexHandler"
    THEN IndexDelete(c, name)
    ELSE OverwriteDelete(c, kind, name)

-----------------------------------------------------------------------------
(* discover_resources and generate_plan *)

\* file names in the order sorted(dir_path.glob("*.json")) yields them
NameOrder == <<"a", "b">>

DesiredResource(name, rtype, body) == [name |-> name, resource_type |-> rtype, body |-> body]

RECURSIVE LoadDir(_, _, _, _)
LoadDir(fs, rtype, rnames, names) ==
    IF names = <<>> THEN <<>>
    ELSE LET name == Head(names)
             here == IF /\ <<rtype, name>> \in DOMAIN fs
                        /\ ~(rnames # <<>> /\ name \notin Range(rnames))
                     THEN <<DesiredResource(name, rtype, fs[<<rtype, name>>])>>
                     ELSE <<>>
         IN  here \o LoadDir(fs, rtype, rnames, Tail(names))

RECURSIVE ScanTypes(_, _, _)
ScanTypes(fs, types_to_scan, rnames) ==
    IF types_to_scan = <<>> THEN <<>>
    ELSE LoadDir(fs, Head(types_to_scan), rnames, NameOrder)
         \o ScanTypes(fs, Tail(types_to_scan), rnames)

\* a filter that is None or empty selects everything; both are written <<>>
discover_resources(fs, rtypes, rnames) ==
    ScanTypes(fs, IF rtypes # <<>> THEN rtypes ELSE ResourceType, rnames)

PlanItem(name, rtype, action, desired_body, details) ==
    [resource_name |-> name, resource_type |-> rtype, action |-> action,
     desired_body |-> desired_body, diff_details |-> details]

\* the DiffResult of every desired resource, in order
Diffs(c, desired_resources) ==
    [k \in 1..Len(desired_resources) |->
        diff_resource(desired_resources[k],
                      HandlerGet(c, desired_resources[k].resource_type,
                                 desired_resources[k].name))]

\* (mutant) the body is kept on every item
ItemOfKeepBody(desired, diff) ==
    PlanItem(diff.resource_name, diff.resource_type, diff.action, desired.body,
             diff.diff_details)

ItemOf(desired, diff) ==
    PlanItem(diff.resource_name, diff.resource_type, diff.action,
             IF diff.action # NO_CHANGE THEN desired.body ELSE None,
             diff.diff_details)

Plan(items) == [cluster_name |-> "local", items |-> items]

\* (mutant) items without a change are left out of the plan
generate_plan_changes_only(c, fs, rtypes, rnames) ==
    LET desired_resources == discover_resources(fs, rtypes, rnames)
        ds == Diffs(c, desired_resources)
    IN  Plan(SelectSeq([k \in 1..Len(desired_resources) |-> ItemOf(desired_resources[k], ds[k])],
                       LAMBDA item : item.action # NO_CHANGE))

generate_plan(c, fs, rtypes, rnames) ==
    LET desired_resources == discover_resources(fs, rtypes, rnames)
        ds == Diffs(c, desired_resources)
    IN  Plan([k \in 1..Len(desired_resources) |-> ItemOf(desired_resources[k], ds[k])])

\* (mutant) every resource is also written back
FetchCallsWriting(fs, rtypes, rnames) ==
    LET desired_resources == discover_resources(fs, rtypes, rnames)
    IN  [k \in 1..Len(desired_resources) |->
            [api |-> "indices.create", name |-> desired_resources[k].name]]

\* the fetches generate_plan issues
FetchCalls(fs, rtypes, rnames) ==
    LET desired_resources == discover_resources(fs, rtypes, rnames)
    IN  [k \in 1..Len(desired_resources) |->
            Call(ClientApi(get_handler(desired_resources[k].resource_type), "get"),
                 desired_resources[k].name)]

\* Plan.has_changes
has_changes(p) == \E k \in 1..Len(p.items) : p.items[k].action # NO_CHANGE

\* Plan.creates
creates(p) == SelectSeq(p.items, LAMBDA i : i.action = CREATE)

\* (mutant) updates holds every item that changes something
updates_any_change(p) == SelectSeq(p.items, LAMBDA i : i.action # NO_CHANGE)

\* Plan.updates
updates(p) == SelectSeq(p.items, LAMBDA i : i.action = UPDATE)

\* Plan.unchanged
unchanged(p) == SelectSeq(p.items, LAMBDA i : i.action = NO_CHANGE)

-----------------------------------------------------------------------------
(* The resource files and cluster states the runs start from *)

Names == Range(NameOrder)

AllIds == Kinds \X Names

\* JSON lists of at most MaxListLen items
Lists == UNION {[1..n -> {1, 2}] : n \in 0..MaxListLen}

D1(k, v) == [x \in {k} |-> v]

SettingsValues ==
    {JDict(EmptyDict),
     JDict(D1("number_of_shards", JInt(1))),
     JDict(D1("index", JDict(EmptyDict))),
     JDict(D1("index", JDict(D1("uuid", JInt(1))))),
     JDict(D1("index", JDict(D1("number_of_shards", JInt(1))))),
     JDict(D1("index", JDict(D1("number_of_shards", JInt(2))))),
     JDict(D1("index", JDict(Put(D1("number_of_shards", JInt(1)), "uuid", JInt(2))))),
     JDict(Put(D1("index", JDict(D1("number_of_shards", JInt(1)))), "analysis", JInt(1)))}

KeyValues(k) ==
    CASE k = "version" -> {JInt(1), JInt(2)}
      [] k = "modified_date" -> {JInt(1)}
      [] k = "priority" -> {JInt(1), JNull}
      [] k = "patterns" -> {JList(s) : s \in Lists}
      [] k = "caf_e9" -> {JInt(1)}
      [] k = "settings" -> SettingsValues
      [] OTHER -> {JInt(1), JInt(2)}

\* the top-level keys the bodies of a kind are built from
TopKeys(kind) ==
    CASE kind = INDEX -> {"settings", "mappings"}
      [] kind = ILM_POLICY -> {"version", "modified_date", "priority"}
      [] kind = INDEX_TEMPLATE -> {"version", "patterns", "caf_e9"}
      [] OTHER -> {"version", "priority"}

BodiesOver(S) ==
    {f \in [S -> UNION {KeyValues(k) : k \in S}] : \A k \in S : f[k] \in KeyValues(k)}

\* the bodies of the diff scenarios: at most MaxKeys top-level keys
RichBodies(kind) ==
    UNION {BodiesOver(S) : S \in {T \in SUBSET TopKeys(kind) : Cardinality(T) <= MaxKeys}}

\* the resource files of the reconcile scenarios, and the body each declares
FileIds == {<<k, "a">> : k \in Kinds} \cup {<<INDEX, "b">>}

FileBody(kind) ==
    IF kind = INDEX
    THEN Put(D1("mappings", JInt(1)), "settings",
             JDict(D1("index", JDict(D1("number_of_shards", JInt(1))))))
    ELSE Put(D1("priority", JInt(1)), "patterns", JList(<<1, 2>>))

\* what the cluster may hold for a declared resource: nothing, the declared
\* body as the server returns it (its own managed fields, its own list
\* order), or a body that differs
ClusterBodies(kind) ==
    IF kind = INDEX
    THEN {None,
          Put(D1("mappings", JInt(1)), "settings",
              JDict(D1("index", JDict(Put(D1("number_of_shards", JInt(1)), "uuid", JInt(2)))))),
          Put(D1("mappings", JInt(2)), "settings",
              JDict(D1("index", JDict(Put(D1("number_of_shards", JInt(1)), "uuid", JInt(2))))))}
    ELSE {None,
          Put(Put(D1("priority", JInt(1)), "patterns", JList(<<2, 1>>)), "version", JInt(2)),
          Put(D1("priority", JInt(1)), "patterns", JList(<<1>>))}

TypeFilters == {<<>>, <<INDEX>>, <<INDEX, ILM_POLICY>>}

NameFilters == {<<>>, <<"a">>}

\* no operation has left a trace yet
Fresh ==
    /\ diffs = <<>>
    /\ changes = <<>>
    /\ idx = 0
    /\ all_ok = TRUE
    /\ result = None
    /\ console = <<>>
    /\ replan = None
    /\ calls = <<>>
    /\ op = None
    /\ puts = <<>>
    /\ exit = None

\* nothing has run yet
Idle ==
    /\ pc = "idle"
    /\ plan = None
    /\ Fresh

\* reconcile scenarios: up to MaxFiles resource files, any filters
Init ==
    /\ \E S \in {T \in SUBSET FileIds : Cardinality(T) <= MaxFiles} :
          /\ files = [id \in S |-> FileBody(id[1])]
          /\ cluster \in {[id \in AllIds |-> IF id \in S THEN g[id] ELSE None] :
                            g \in {h \in [S -> UNION {ClusterBodies(k) : k \in Kinds}] :
                                      \A id \in S : h[id] \in ClusterBodies(id[1])}}
    /\ resource_types \in TypeFilters
    /\ resource_names \in NameFilters
    /\ Idle

\* diff scenarios: one resource file, any body, against any cluster body
DiffInit ==
    /\ \E kind \in Kinds :
          /\ files \in {D1(<<kind, "a">>, b) : b \in RichBodies(kind)}
          /\ cluster \in {[id \in AllIds |-> IF id = <<kind, "a">> THEN b ELSE None] :
                             b \in RichBodies(kind) \cup {None}}
    /\ resource_types = <<>>
    /\ resource_names = <<>>
    /\ Idle

-----------------------------------------------------------------------------
(* Operations *)

PyBool(b) == [t |-> "bool", v |-> b]

\* (mutant) a failing fetch is skipped and the plan holds the other resources
plan_run_skipping(c, fs, rtypes, rnames, f) ==
    [plan |-> generate_plan(c, fs, rtypes, rnames),
     diffs |-> Diffs(c, discover_resources(fs, rtypes, rnames)),
     calls |-> [k \in 1..Len(discover_resources(fs, rtypes, rnames)) |->
                   [api |-> "get", name |-> discover_resources(fs, rtypes, rnames)[k].name]],
     error |-> IF f = 0 THEN "" ELSE "TransportError"]

\* generate_plan when the fetch of the f-th desired resource raises an error
\* other than not-found (f = 0: every fetch is answered).  The error leaves
\* diff_resource and generate_plan uncaught: no Plan is returned and the loop
\* does not go on.
plan_run(c, fs, rtypes, rnames, f) ==
    LET desired_resources == discover_resources(fs, rtypes, rnames)
        fetches == FetchCalls(fs, rtypes, rnames)
    IN  IF f = 0
        THEN [plan |-> generate_plan(c, fs, rtypes, rnames),
              diffs |-> Diffs(c, desired_resources),
              calls |-> fetches,
              error |-> ""]
        ELSE [plan |-> None,
              diffs |-> Diffs(c, SubSeq(desired_resources, 1, f - 1)),
              calls |-> SubSeq(fetches, 1, f),
              error |-> "TransportError"]

\* generate_plan, from the CLI's plan or apply command
GeneratePlan ==
    /\ pc = "idle"
    /\ \E f \in 0..Len(discover_resources(files, resource_types, resource_names)) :
          LET run == plan_run(cluster, files, resource_types, resource_names, f)
          IN  /\ plan' = run.plan
              /\ diffs' = run.diffs
              /\ calls' = run.calls
              /\ pc' = IF run.error = "" THEN "planned" ELSE "plan_failed"
    /\ puts' = <<>>
    /\ UNCHANGED <<files, resource_types, resource_names, cluster, changes, idx, all_ok,
                   result, console, replan, op, exit>>

\* the body of an index another actor creates
OtherActorBody == D1("mappings", JInt(3))

\* between generate_plan and apply_plan another actor creates an index the
\* plan is about to create
OtherActorCreatesIndex ==
    /\ pc = "planned"
    /\ \E k \in 1..Len(plan.items) :
          /\ plan.items[k].resource_type = INDEX
          /\ plan.items[k].action # NO_CHANGE
          /\ cluster[<<INDEX, plan.items[k].resource_name>>] = None
          /\ cluster' = [cluster EXCEPT ![<<INDEX, plan.items[k].resource_name>>] =
                                            OtherActorBody]
    /\ UNCHANGED <<files, resource_types, resource_names, pc, plan, diffs, changes, idx,
                   all_ok, result, console, replan, calls, op, puts, exit>>

\* (mutant) no filter on the action
ActionableAll(items) == items

Actionable(items) == SelectSeq(items, LAMBDA item : item.action # NO_CHANGE)

\* apply_plan up to its loop: the filter, and the early return
ApplyBegin ==
    /\ pc = "planned"
    /\ changes' = Actionable(plan.items)
    /\ calls' = <<>>
    /\ puts' = <<>>
    /\ idx' = 0
    /\ all_ok' = TRUE
    /\ IF changes' = <<>>
       THEN /\ console' = <<[status |-> "Nothing to apply.", item |-> None, error |-> ""]>>
            /\ result' = PyBool(TRUE)
            /\ pc' = "applied"
       ELSE /\ console' = <<>>
            /\ result' = None
            /\ pc' = "applying"
    /\ UNCHANGED <<files, resource_types, resource_names, cluster, plan, diffs, replan, op,
                   exit>>

\* (mutant) the loop also stops at the first failure
LoopDoneBreak(i, chs, ok) == i = Len(chs) \/ ~ok

\* the for loop over changes has run out
LoopDone(i, chs, ok) == i = Len(chs)

\* (mutant) all_ok follows the last item only
KeepAllOkLast(ok, error) == error = ""

\* all_ok after an item: a failure clears it for good
KeepAllOk(ok, error) == IF error = "" THEN ok ELSE FALSE

\* (mutant) the normalized body is handed to the handler
HandlerWriteNormalized(item) ==
    [kind |-> item.resource_type, name |-> item.resource_name,
     body |-> normalize(get_handler(item.resource_type), item.desired_body)]

\* the invocation handler.put(item.resource_name, item.desired_body) on the
\* handler of item.resource_type
HandlerWrite(item) ==
    [kind |-> item.resource_type, name |-> item.resource_name, body |-> item.desired_body]

\* (mutant) an item without a body is passed on to the handler
HandlerWritesUnchecked(item) == <<HandlerWrite(item)>>

\* the handler.put invocations of _apply_item
HandlerWrites(item) ==
    IF item.desired_body = None THEN <<>> ELSE <<HandlerWrite(item)>>

\* _apply_item
apply_item(c, item, fault) ==
    IF item.desired_body = None
    THEN Outcome(c, <<>>, "ApplyError")
    ELSE HandlerPut(c, item.resource_type, item.resource_name, item.desired_body, fault)

\* (mutant) the loop takes the items from the end of the list
NextItemBackwards(chs, i) == chs[Len(chs) - i]

\* for item in changes: the item of the iteration that follows i iterations
NextItem(chs, i) == chs[i + 1]

\* one iteration of apply_plan's loop; the write may meet a transport fault
ApplyItem ==
    /\ pc = "applying"
    /\ ~LoopDone(idx, changes, all_ok)
    /\ \E fault \in BOOLEAN :
          LET item == NextItem(changes, idx)
              out == apply_item(cluster, item, fault)
          IN  /\ cluster' = out.cluster
              /\ calls' = calls \o out.calls
              /\ puts' = puts \o HandlerWrites(item)
              /\ all_ok' = KeepAllOk(all_ok, out.error)
              /\ console' = Append(console,
                                   [status |-> IF out.error = "" THEN "OK" ELSE "FAIL",
                                    item |-> item, error |-> out.error])
    /\ idx' = idx + 1
    /\ UNCHANGED <<files, resource_types, resource_names, pc, plan, diffs, changes, result,
                   replan, op, exit>>

\* apply_plan returns all_ok
ApplyReturn ==
    /\ pc = "applying"
    /\ LoopDone(idx, changes, all_ok)
    /\ result' = PyBool(all_ok)
    /\ pc' = "applied"
    /\ UNCHANGED <<files, resource_types, resource_names, cluster, plan, diffs, changes, idx,
                   all_ok, console, replan, calls, op, puts, exit>>

\* generate_plan again, from the same resource files, after apply_plan
\* returned; this second run is followed where every fetch is answered (a
\* fetch that fails ends it as it ends the first run, see GeneratePlan)
Replan ==
    /\ pc = "applied"
    /\ LET run == plan_run(cluster, files, resource_types, resource_names, 0)
       IN  /\ replan' = run.plan
           /\ calls' = run.calls
    /\ pc' = "replanned"
    /\ puts' = <<>>
    /\ UNCHANGED <<files, resource_types, resource_names, cluster, plan, diffs, changes, idx,
                   all_ok, result, console, op, exit>>

DirectCall(method, id, out) ==
    [method |-> method, kind |-> id[1], name |-> id[2], before |-> cluster[id],
     error |-> out.error]

\* a caller invokes handler.put(name, body) itself (handlers take no
\* filter: the call is explored where none is set)
PutCall ==
    /\ pc = "idle"
    /\ resource_types = <<>> /\ resource_names = <<>>
    /\ \E id \in DOMAIN files, fault \in BOOLEAN :
          LET out == HandlerPut(cluster, id[1], id[2], files[id], fault)
          IN  /\ cluster' = out.cluster
              /\ calls' = out.calls
              /\ puts' = <<[kind |-> id[1], name |-> id[2], body |-> files[id]]>>
              /\ op' = DirectCall("put", id, out)
    /\ pc' = "called"
    /\ UNCHANGED <<files, resource_types, resource_names, plan, diffs, changes, idx, all_ok,
                   result, console, replan, exit>>

\* a caller invokes handler.delete(name) itself (handlers take no
\* filter: the call is explored where none is set)
DeleteCall ==
    /\ pc = "idle"
    /\ resource_types = <<>> /\ resource_names = <<>>
    /\ \E id \in DOMAIN files :
          LET out == HandlerDelete(cluster, id[1], id[2])
          IN  /\ cluster' = out.cluster
              /\ calls' = out.calls
              /\ op' = DirectCall("delete", id, out)
    /\ pc' = "called"
    /\ UNCHANGED <<files, resource_types, resource_names, plan, diffs, changes, idx, all_ok,
                   result, console, replan, puts, exit>>

-----------------------------------------------------------------------------
(* handler.get, from the client's answer *)

\* the handlers whose get reads a list of templates out of the response
ListKeyed == {"IndexTemplateHandler", "ComponentTemplateHandler"}

\* a client answer: the error raised if any, whether the response has the
\* list key, and the entries it holds
Response(raised, has_list, entries) ==
    [raised |-> raised, has_list |-> has_list, entries |-> entries]

Entry(name, body) == [name |-> name, body |-> body]

OtherName(name) == IF name = "a" THEN "b" ELSE "a"

\* What the client may answer to a get by name.  For a resource the cluster
\* holds: the entry.  For one it does not hold: NotFoundError, a response
\* without the name (empty, or holding another name), or for the template
\* kinds a response without the list or with an empty list.  Any get may meet a
\* transport error.
ClientGet(c, kind, name) ==
    LET held == c[<<kind, name>>]
        listed == get_handler(kind) \in ListKeyed
    IN  {Response("TransportError", FALSE, <<>>)}
        \cup IF held # None
             THEN {Response("", listed, <<Entry(name, held)>>)}
             ELSE {Response("NotFoundError", FALSE, <<>>), Response("", FALSE, <<>>)}
                  \cup IF listed
                       THEN {Response("", TRUE, <<>>)}
                       ELSE {Response("", FALSE, <<Entry(OtherName(name), FileBody(kind))>>)}

Got(value, error) == [value |-> value, error |-> error]

\* (mutant) NotFoundError is not caught
handler_get_uncaught(handler, name, resp) ==
    IF resp.raised # "" THEN Got(None, resp.raised)
    ELSE Got(IF resp.entries # <<>> THEN resp.entries[1].body ELSE None, "")

\* get of a handler: None on NotFoundError and when the response lacks the
\* resource; any other error propagates
handler_get(handler, name, resp) ==
    CASE resp.raised = "NotFoundError" -> Got(None, "")
      [] resp.raised \notin {"", "NotFoundError"} -> Got(None, resp.raised)
      [] OTHER ->
             IF handler \in ListKeyed
             THEN LET templates == IF resp.has_list THEN resp.entries ELSE <<>>
                  IN  Got(IF templates # <<>> THEN templates[1].body ELSE None, "")
             ELSE LET hits == SelectSeq(resp.entries, LAMBDA e : e.name = name)
                  IN  Got(IF hits # <<>> THEN hits[1].body ELSE None, "")

\* a caller invokes handler.get(name) itself (handlers take no
\* filter: the call is explored where none is set)
GetCall ==
    /\ pc = "idle"
    /\ resource_types = <<>> /\ resource_names = <<>>
    /\ \E id \in DOMAIN files :
          \E resp \in ClientGet(cluster, id[1], id[2]) :
              LET got == handler_get(get_handler(id[1]), id[2], resp)
              IN  /\ calls' = <<Call(ClientApi(get_handler(id[1]), "get"), id[2])>>
                  /\ op' = [method |-> "get", kind |-> id[1], name |-> id[2],
                            before |-> cluster[id], error |-> got.error,
                            response |-> resp, value |-> got.value]
    /\ pc' = "called"
    /\ puts' = <<>>
    /\ UNCHANGED <<files, resource_types, resource_names, cluster, plan, diffs, changes, idx,
                   all_ok, result, console, replan, exit>>

-----------------------------------------------------------------------------
(* The plan and apply commands of the CLI: how the process ends *)

Commands == {"plan", "apply"}

\* the command ended with this exit code, at this stage
Exit(cmd, code, stage) == [cmd |-> cmd, code |-> code, stage |-> stage]

\* (mutant) plan exits 0 whatever the plan holds
plan_exit_code_zero(p) == 0

\* plan: SystemExit(2) when the plan has changes, a normal return otherwise
plan_exit_code(p) == IF has_changes(p) THEN 2 ELSE 0

\* apply: SystemExit(1) when apply_plan returned False, a normal return otherwise
apply_exit_code(success) == IF success = PyBool(TRUE) THEN 0 ELSE 1

\* the option parser rejects the command line (--cluster missing, a resource
\* type outside the choices): click exits with its usage error code, and the
\* command is not run.  Nothing of the state is read: the step is explored
\* where no filter is set.
CliUsageError ==
    /\ pc = "idle"
    /\ resource_types = <<>> /\ resource_names = <<>>
    /\ \E cmd \in Commands : exit' = Exit(cmd, 2, "usage")
    /\ pc' = "exited"
    /\ UNCHANGED <<files, resource_types, resource_names, cluster, plan, diffs, changes, idx,
                   all_ok, result, console, replan, calls, op, puts>>

\* load_config fails or the cluster is not in the configuration: an
\* ElasticodeError, caught by the command.  Explored where no filter is set.
CliConfigError ==
    /\ pc = "idle"
    /\ resource_types = <<>> /\ resource_names = <<>>
    /\ \E cmd \in Commands : exit' = Exit(cmd, 1, "config")
    /\ pc' = "exited"
    /\ UNCHANGED <<files, resource_types, resource_names, cluster, plan, diffs, changes, idx,
                   all_ok, result, console, replan, calls, op, puts>>

\* generate_plan raised: the error is no ElasticodeError, leaves the command
\* uncaught and ends the process with status 1
CliPlanFailed ==
    /\ pc = "plan_failed"
    /\ \E cmd \in Commands : exit' = Exit(cmd, 1, "fetch")
    /\ pc' = "exited"
    /\ UNCHANGED <<files, resource_types, resource_names, cluster, plan, diffs, changes, idx,
                   all_ok, result, console, replan, calls, op, puts>>

\* the plan command after generate_plan returned
CliPlanExit ==
    /\ pc = "planned"
    /\ exit' = Exit("plan", plan_exit_code(plan), "planned")
    /\ pc' = "exited"
    /\ UNCHANGED <<files, resource_types, resource_names, cluster, plan, diffs, changes, idx,
                   all_ok, result, console, replan, calls, op, puts>>

\* (mutant) apply goes on to apply_plan whatever the plan and the answer
apply_proceeds_unasked(p, auto_approve, confirmed) == TRUE

\* the apply command reaches apply_plan: the plan has changes, and the user
\* passed --auto-approve or confirmed
apply_proceeds(p, auto_approve, confirmed) == has_changes(p) /\ (auto_approve \/ confirmed)

\* the apply command stops before apply_plan: nothing to change (a normal
\* return), or the confirmation was declined (SystemExit(0))
CliApplyStops ==
    /\ pc = "planned"
    /\ \E auto_approve, confirmed \in BOOLEAN : ~apply_proceeds(plan, auto_approve, confirmed)
    /\ exit' = Exit("apply", 0, IF has_changes(plan) THEN "aborted" ELSE "no_changes")
    /\ pc' = "exited"
    /\ UNCHANGED <<files, resource_types, resource_names, cluster, plan, diffs, changes, idx,
                   all_ok, result, console, replan, calls, op, puts>>

\* the apply command after apply_plan returned
CliApplyExit ==
    /\ pc = "applied"
    /\ \E auto_approve, confirmed \in BOOLEAN : apply_proceeds(plan, auto_approve, confirmed)
    /\ exit' = Exit("apply", apply_exit_code(result), "applied")
    /\ pc' = "exited"
    /\ UNCHANGED <<files, resource_types, resource_names, cluster, plan, diffs, changes, idx,
                   all_ok, result, console, replan, calls, op, puts>>

-----------------------------------------------------------------------------
(* apply_plan on a Plan its caller built by hand *)

\* the resource files of the hand-built plans
HandIds == {<<INDEX_TEMPLATE, "a">>, <<INDEX, "a">>, <<INDEX, "b">>}

\* one item per resource file, with any action, with or without the body
HandPlans(fs) ==
    LET desired_resources == discover_resources(fs, <<>>, <<>>)
        n == Len(desired_resources)
    IN  {Plan([k \in 1..n |->
                  PlanItem(desired_resources[k].name, desired_resources[k].resource_type,
                           ch[k][1],
                           IF ch[k][2] THEN desired_resources[k].body ELSE None,
                           <<>>)]) :
            ch \in [1..n -> {CREATE, UPDATE, NO_CHANGE} \X BOOLEAN]}

\* the body a resource file of the hand-built plans declares: it carries
\* fields that normalize would strip
HandFileBody(kind) ==
    IF kind = INDEX
    THEN Put(D1("mappings", JInt(1)), "settings",
             JDict(D1("index", JDict(Put(D1("number_of_shards", JInt(1)), "uuid", JInt(2))))))
    ELSE Put(FileBody(kind), "version", JInt(3))

\* what the cluster holds for a resource of a hand-built plan: nothing, or a
\* body that differs from the declared one
HandClusterBodies(kind) ==
    {None, Put(D1("mappings", JInt(2)), "priority", JInt(2))}

ApplyInit ==
    /\ \E S \in {T \in SUBSET HandIds : Cardinality(T) <= MaxFiles} :
          /\ files = [id \in S |-> HandFileBody(id[1])]
          /\ cluster \in {[id \in AllIds |-> IF id \in S THEN g[id] ELSE None] :
                            g \in [S -> HandClusterBodies(INDEX)]}
          /\ \/ pc = "idle" /\ plan = None
             \/ pc = "planned" /\ plan \in HandPlans(files)
    /\ resource_types = <<>>
    /\ resource_names = <<>>
    /\ Fresh

-----------------------------------------------------------------------------
(* export_resources *)

\* handler.list_all(): every resource of the kind the cluster holds, by
\* name, normalized (no index of the scenarios has a name that starts with
\* a dot)
list_all(handler, c) ==
    LET kind == CHOOSE k \in Kinds : get_handler(k) = handler
    IN  [name \in {n \in Names : c[<<kind, n>>] # None} |-> normalize(handler, c[<<kind, name>>])]

\* the directory, and the records of ExportResult, while the loops run
ExportState(fs, exported, skipped) == [files |-> fs, exported |-> exported, skipped |-> skipped]

\* the body of the inner loop, for one listed resource; the file holds the
\* document json.dump writes, kept as the body _load_json_file reads back
ExportOne(st, rtype, name, body, rnames, force) ==
    IF rnames # <<>> /\ name \notin Range(rnames) THEN st
    ELSE IF <<rtype, name>> \in DOMAIN st.files /\ ~force
    THEN ExportState(st.files, st.exported,
                     Append(st.skipped, <<rtype, name, "file already exists">>))
    ELSE ExportState(Put(st.files, <<rtype, name>>, body),
                     Append(st.exported, <<rtype, name>>), st.skipped)

\* the inner loop over sorted(all_resources.items())
RECURSIVE ExportNames(_, _, _, _, _, _)
ExportNames(st, rtype, all_resources, names, rnames, force) ==
    IF names = <<>> THEN st
    ELSE ExportNames(IF Head(names) \in DOMAIN all_resources
                     THEN ExportOne(st, rtype, Head(names), all_resources[Head(names)],
                                    rnames, force)
                     ELSE st,
                     rtype, all_resources, Tail(names), rnames, force)

\* the outer loop over the first n kinds of types_to_export
RECURSIVE ExportTypes(_, _, _, _, _, _)
ExportTypes(st, c, types_to_export, n, rnames, force) ==
    IF n = 0 THEN st
    ELSE ExportNames(ExportTypes(st, c, types_to_export, n - 1, rnames, force),
                     types_to_export[n], list_all(get_handler(types_to_export[n]), c),
                     NameOrder, rnames, force)

\* export_resources when list_all of the f-th kind raises (f = 0: every
\* listing is answered): ExportError leaves the function, no ExportResult
\* is returned, the files written for the kinds before stay
export_resources(c, fs, rtypes, rnames, force, f) ==
    LET types_to_export == IF rtypes # <<>> THEN rtypes ELSE ResourceType
        st == ExportTypes(ExportState(fs, <<>>, <<>>), c, types_to_export,
                          IF f = 0 THEN Len(types_to_export) ELSE f - 1, rnames, force)
    IN  [files |-> st.files,
         result |-> IF f = 0 THEN [exported |-> st.exported, skipped |-> st.skipped] ELSE None,
         error |-> IF f = 0 THEN "" ELSE "ExportError"]

\* a caller exports the cluster into the resource directory (a listing
\* that fails is explored where a type filter is set)
ExportCall ==
    /\ pc = "idle"
    /\ \E force \in BOOLEAN, f \in 0..Len(resource_types) :
          LET out == export_resources(cluster, files, resource_types, resource_names, force, f)
          IN  /\ files' = out.files
              /\ op' = [method |-> "export", force |-> force, before |-> files,
                        result |-> out.result, error |-> out.error]
    /\ pc' = "called"
    /\ UNCHANGED <<resource_types, resource_names, cluster, plan, diffs, changes, idx, all_ok,
                   result, console, replan, calls, puts, exit>>

\* the resources of the export scenarios
ExportIds == {<<INDEX_TEMPLATE, "a">>, <<INDEX_TEMPLATE, "b">>, <<INDEX, "a">>}

\* the type filters of the export scenarios: the kinds of ExportIds, in any
\* order, a kind possibly more than once
ExportTypeFilters == UNION {[1..n -> {id[1] : id \in ExportIds}] : n \in 0..MaxFilterLen}

\* what the cluster holds for a resource of the export scenarios: a body
\* with server-managed fields, other than the body of the resource's file
ExportClusterBody(kind) == Put(HandFileBody(kind), "mappings", JInt(2))

\* export scenarios: the cluster holds some resources, the directory some
\* files, of other content
ExportInit ==
    /\ \E S \in SUBSET ExportIds : files = [id \in S |-> FileBody(id[1])]
    /\ \E T \in SUBSET ExportIds :
          cluster = [id \in AllIds |-> IF id \in T THEN ExportClusterBody(id[1]) ELSE None]
    /\ resource_types \in ExportTypeFilters
    /\ resource_names \in NameFilters
    /\ Idle

-----------------------------------------------------------------------------
(* the loader under every filter the command line can build *)

\* the type filters of the repeatable option -t: any kinds, in any order,
\* a kind possibly more than once
AllTypeFilters == UNION {[1..n -> Kinds] : n \in 0..MaxFilterLen}

\* loader scenarios: a few resource files the cluster does not hold yet, any
\* type filter, any name filter
LoadInit ==
    /\ \E S \in {T \in SUBSET FileIds : Cardinality(T) <= MaxLoadFiles} :
          files = [id \in S |-> FileBody(id[1])]
    /\ cluster = [id \in AllIds |-> None]
    /\ resource_types \in AllTypeFilters
    /\ resource_names \in NameFilters
    /\ Idle

-----------------------------------------------------------------------------

Next ==
    \/ GeneratePlan
    \/ OtherActorCreatesIndex
    \/ ApplyBegin
    \/ ApplyItem
    \/ ApplyReturn
    \/ Replan
    \/ PutCall
    \/ DeleteCall
    \/ GetCall
    \/ ExportCall
    \/ CliUsageError
    \/ CliConfigError
    \/ CliPlanFailed
    \/ CliPlanExit
    \/ CliApplyStops
    \/ CliApplyExit

Spec == Init /\ [][Next]_vars

DiffSpec == DiffInit /\ [][Next]_vars

ApplySpec == ApplyInit /\ [][Next]_vars

LoadSpec == LoadInit /\ [][Next]_vars

ExportSpec == ExportInit /\ [][Next]_vars

-----------------------------------------------------------------------------
(* Properties of the applier and of the Index handler *)

\* the client call a handler's put starts with
EntryApi(kind) ==
    IF get_handler(kind) = "IndexHandler" THEN "indices.exists"
    ELSE ClientApi(get_handler(kind), "put")

\* the put calls begun, in order
Attempts(cs) == SelectSeq(cs, LAMBDA c : c.api \in {EntryApi(k) : k \in Kinds})

\* the actionable items that carry a body
WithBody(items) == SelectSeq(Actionable(items), LAMBDA item : item.desired_body # None)

\* the per-item reports printed by apply_plan
Reports == SelectSeq(console, LAMBDA r : r.status \in {"OK", "FAIL"})

\* C1: applier isolation.  Whatever fails, the put of every actionable item is
\* begun, in plan order: while apply_plan runs the k-th put begun is the put of
\* the k-th actionable item, and when it has returned there is one for each.
C1_ApplierIsolation ==
    pc \in {"applying", "applied"} =>
        LET at == Attempts(calls)
            todo == WithBody(plan.items)
        IN  /\ Len(at) <= Len(todo)
            /\ pc = "applied" => Len(at) = Len(todo)
            /\ \A k \in 1..Len(at) :
                  /\ at[k].name = todo[k].resource_name
                  /\ at[k].api = EntryApi(todo[k].resource_type)

\* C1 witness: an Index item was refused because the index exists, and a later
\* item was written
C1_Witness ==
    /\ pc = "applied"
    /\ \E i, j \in 1..Len(console) :
          /\ i < j
          /\ console[i].error = "IndexUpdateError"
          /\ console[j].status = "OK"

\* C2: apply_plan returns True exactly when every actionable item was reported
\* OK; each actionable item has one report.
C2_ResultIffAllOk ==
    pc = "applied" =>
        /\ Len(Reports) = Len(Actionable(plan.items))
        /\ result = PyBool(\A k \in 1..Len(Reports) : Reports[k].status = "OK")

\* C2 witness: the first item failed, the last one succeeded, False is returned
C2_Witness ==
    /\ pc = "applied"
    /\ Len(console) >= 2
    /\ console[1].status = "FAIL"
    /\ console[Len(console)].status = "OK"
    /\ result = PyBool(FALSE)

\* C3: a put on the Index handler for a name the cluster holds never calls
\* indices.create and leaves the index as it was; when the existence check is
\* answered the error raised is IndexUpdateError.
C3_IndexCreateOnly ==
    (op # None /\ op.method = "put" /\ op.kind = INDEX /\ op.before # None) =>
        /\ \A k \in 1..Len(calls) : calls[k].api # "indices.create"
        /\ cluster[<<op.kind, op.name>>] = op.before
        /\ op.error # ""
        /\ op.error # "TransportError" => op.error = "IndexUpdateError"

\* C3 witness: put was called for an existing index and raised IndexUpdateError
C3_Witness ==
    /\ op # None
    /\ op.method = "put"
    /\ op.kind = INDEX
    /\ op.before # None
    /\ op.error = "IndexUpdateError"

IndexIds == {id \in AllIds : id[1] = INDEX}

\* C4: no step removes an index from the cluster or issues indices.delete, and
\* delete on the Index handler raises NotImplementedError without any client
\* call.
C4_IndexNeverDeleted ==
    [][/\ \A id \in IndexIds : cluster[id] # None => cluster'[id] # None
       /\ \A k \in 1..Len(calls') : calls'[k].api # "indices.delete"
       /\ (op' # op /\ op'.method = "delete" /\ op'.kind = INDEX) =>
              /\ op'.error = "NotImplementedError"
              /\ calls' = <<>>
              /\ cluster' = cluster]_vars

\* C4 witness: delete was called for an index the cluster holds, and it is
\* still there
C4_Witness ==
    /\ op # None
    /\ op.method = "delete"
    /\ op.kind = INDEX
    /\ op.before # None
    /\ cluster[<<op.kind, op.name>>] = op.before

-----------------------------------------------------------------------------
(* Properties of the diff engine *)

Count(l, x) == Cardinality({i \in DOMAIN l : l[i] = x})

\* equality of JSON values with lists compared as multisets
RECURSIVE MultisetEq(_, _)
MultisetEq(v1, v2) ==
    /\ v1.t = v2.t
    /\ CASE v1.t = "int" -> v1.n = v2.n
         [] v1.t = "list" ->
                \A x \in Range(v1.l) \cup Range(v2.l) : Count(v1.l, x) = Count(v2.l, x)
         [] v1.t = "dict" ->
                /\ DOMAIN v1.d = DOMAIN v2.d
                /\ \A k \in DOMAIN v1.d : MultisetEq(v1.d[k], v2.d[k])
         [] OTHER -> TRUE

BodyEq(b1, b2) == MultisetEq(JDict(b1), JDict(b2))

\* body without the server-managed fields section 4.1 lists for the kind
StripListed(kind, body) ==
    CASE kind = INDEX ->
             IF "settings" \in DOMAIN body /\ "index" \in DOMAIN body["settings"].d
             THEN Put(body, "settings",
                      JDict(Put(body["settings"].d, "index",
                                JDict(PopAll(body["settings"].d["index"].d,
                                             <<"creation_date", "uuid", "version",
                                               "provided_name", "routing_num_shards",
                                               "routing_partition_size", "shard", "store">>)))))
             ELSE body
      [] kind = ILM_POLICY ->
             PopAll(body, <<"version", "modified_date", "modified_date_millis", "in_use_by">>)
      [] OTHER -> PopAll(body, <<"version">>)

Normalized(d, body) == normalize(get_handler(d.resource_type), body)

\* the text of a narrative
Text(details, i) == details[i].text

\* C6: a resource the cluster does not hold is diffed as Create, with no
\* current body, the declared body as desired, and a narrative in which every
\* top-level key of the body occurs.
C6_CreateNarrative ==
    \A k \in 1..Len(diffs) :
        diffs[k].current = None =>
            /\ diffs[k].action = CREATE
            /\ diffs[k].desired = files[<<diffs[k].resource_type, diffs[k].resource_name>>]
            /\ \A key \in DOMAIN diffs[k].desired :
                  \E i \in 1..Len(diffs[k].diff_details) :
                      Contains(Text(diffs[k].diff_details, i), CodePoints(key))

\* C7: a resource the cluster holds is diffed as NoChange, with an empty
\* narrative, when the normalized bodies are equal as multisets, and when the
\* bodies differ only in the server-managed fields of the kind and in the
\* order of list items.
C7_NoChange ==
    \A k \in 1..Len(diffs) :
        LET d == diffs[k]
        IN  (/\ d.current # None
             /\ \/ BodyEq(Normalized(d, d.current), Normalized(d, d.desired))
                \/ BodyEq(StripListed(d.resource_type, d.current),
                          StripListed(d.resource_type, d.desired))) =>
                /\ d.action = NO_CHANGE
                /\ d.diff_details = <<>>

\* C7 witness: the cluster's body has another version and another list order
\* than the declared body, and the diff is NoChange
C7_Witness ==
    \E k \in 1..Len(diffs) :
        LET d == diffs[k]
        IN  /\ d.current # None
            /\ {"version", "patterns"} \subseteq DOMAIN d.current
            /\ {"version", "patterns"} \subseteq DOMAIN d.desired
            /\ d.current["version"] # d.desired["version"]
            /\ d.current["patterns"] # d.desired["patterns"]
            /\ d.action = NO_CHANGE

\* C8: a resource the cluster holds whose normalized body differs from the
\* normalized declared body is diffed as Update, with a narrative that is not
\* empty and names a path in every line.
C8_UpdateWhenDifferent ==
    \A k \in 1..Len(diffs) :
        LET d == diffs[k]
        IN  (/\ d.current # None
             /\ ~BodyEq(Normalized(d, d.current), Normalized(d, d.desired))) =>
                /\ d.action = UPDATE
                /\ d.diff_details # <<>>
                /\ \A i \in 1..Len(d.diff_details) : d.diff_details[i].path # <<>>

\* C9: two lists compare equal exactly when they hold the same items the same
\* number of times.
C9_ListsAsMultisets ==
    \A k \in 1..Len(diffs) :
        LET d == diffs[k]
        IN  (/\ d.current # None
             /\ DOMAIN d.current = {"patterns"}
             /\ DOMAIN d.desired = {"patterns"}) =>
                (d.action = NO_CHANGE <=>
                    \A x \in Range(d.current["patterns"].l) \cup Range(d.desired["patterns"].l) :
                        Count(d.current["patterns"].l, x) = Count(d.desired["patterns"].l, x))

\* C10: apply_plan, called on a plan without a Create or Update item, returns
\* True at once: nothing is called and the cluster is not touched.
C10_NothingToApply ==
    [][(/\ pc = "planned"
        /\ pc' \in {"applying", "applied"}
        /\ \A k \in 1..Len(plan.items) : plan.items[k].action = NO_CHANGE) =>
          /\ pc' = "applied"
          /\ result' = PyBool(TRUE)
          /\ calls' = <<>>
          /\ cluster' = cluster]_vars

\* C10 witness: a plan of NoChange items only was applied
C10_Witness ==
    /\ pc = "applied"
    /\ Len(plan.items) >= 2
    /\ \A k \in 1..Len(plan.items) : plan.items[k].action = NO_CHANGE
    /\ result = PyBool(TRUE)
    /\ calls = <<>>

-----------------------------------------------------------------------------
(* Properties of apply_plan's writes, of the planner, of get and normalize,  *)
(* and of the CLI's exit codes                                               *)

\* the items apply_plan has to hand to a handler: Create or Update, with a body
ToWrite(items) ==
    SelectSeq(items, LAMBDA item : item.action \in {CREATE, UPDATE} /\ item.desired_body # None)

\* C11: apply_plan invokes handler.put for the Create and Update items that
\* carry a body and for nothing else, once each and in plan order, on the
\* handler of the item's kind, with the item's name and the body as loaded from
\* the resource file.
C11_WritesOnlyActionable ==
    pc \in {"applying", "applied"} =>
        LET todo == ToWrite(plan.items)
        IN  /\ Len(puts) <= Len(todo)
            /\ pc = "applied" => Len(puts) = Len(todo)
            /\ \A k \in 1..Len(puts) :
                  /\ puts[k].kind = todo[k].resource_type
                  /\ puts[k].name = todo[k].resource_name
                  /\ puts[k].body = files[<<todo[k].resource_type, todo[k].resource_name>>]

\* C11 witness: a plan holding a NoChange item that carries a body was applied
\* with two writes, of bodies that normalize would have changed
C11_Witness ==
    /\ pc = "applied"
    /\ \E k \in 1..Len(plan.items) :
          plan.items[k].action = NO_CHANGE /\ plan.items[k].desired_body # None
    /\ Len(puts) = 2
    /\ \A k \in 1..Len(puts) :
          normalize(get_handler(puts[k].kind), puts[k].body) # puts[k].body

\* C12: in a plan returned by generate_plan an item has no body exactly when
\* its action is NoChange, and a Create or Update item carries the body
\* declared by the resource file it was computed from.
C12_BodyIffActionable ==
    plan # None =>
        \A k \in 1..Len(plan.items) :
            LET item == plan.items[k]
            IN  /\ item.desired_body = None <=> item.action = NO_CHANGE
                /\ item.action # NO_CHANGE =>
                      item.desired_body = files[<<item.resource_type, item.resource_name>>]

\* C12 witness: a plan with a NoChange item, a Create item and an Update item
C12_Witness ==
    /\ plan # None
    /\ \E i, j, k \in 1..Len(plan.items) :
          /\ plan.items[i].action = NO_CHANGE
          /\ plan.items[j].action = CREATE
          /\ plan.items[k].action = UPDATE

\* C13: a plan returned by generate_plan has one item per desired resource the
\* loader supplied, in the loader's order: item k has the name and the kind of
\* desired resource k.
C13_OneItemPerResource ==
    plan # None =>
        LET desired_resources == discover_resources(files, resource_types, resource_names)
        IN  /\ Len(plan.items) = Len(desired_resources)
            /\ \A k \in 1..Len(plan.items) :
                  /\ plan.items[k].resource_name = desired_resources[k].name
                  /\ plan.items[k].resource_type = desired_resources[k].resource_type

\* C13 witness: a plan of three items of which one is NoChange, under a filter
C13_Witness ==
    /\ plan # None
    /\ resource_types # <<>>
    /\ Len(plan.items) = 3
    /\ \E k \in 1..Len(plan.items) : plan.items[k].action = NO_CHANGE
    /\ \E k \in 1..Len(plan.items) : plan.items[k].action # NO_CHANGE

\* the client calls that read
GetApis == {ClientApi(get_handler(k), "get") : k \in Kinds}

\* C14: a run of generate_plan leaves the cluster as it was, invokes no
\* handler.put, and issues only fetches: when it returns a plan, one per
\* desired resource, in order, by the resource's name.
C14_PlanningReadsOnly ==
    [][((pc = "idle" /\ pc' \in {"planned", "plan_failed"})
          \/ (pc = "applied" /\ pc' = "replanned")) =>
          LET desired_resources == discover_resources(files, resource_types, resource_names)
          IN  /\ cluster' = cluster
              /\ puts' = <<>>
              /\ \A k \in 1..Len(calls') :
                    /\ calls'[k].api \in GetApis
                    /\ calls'[k].api = ClientApi(get_handler(desired_resources[k].resource_type), "get")
                    /\ calls'[k].name = desired_resources[k].name
              /\ pc' \in {"planned", "replanned"} => Len(calls') = Len(desired_resources)]_vars

\* C14 witness: a plan with changes was generated by three fetches from a
\* cluster that holds a resource
C14_Witness ==
    /\ pc = "planned"
    /\ Len(calls) = 3
    /\ has_changes(plan)
    /\ \E id \in AllIds : cluster[id] # None

\* C15: when a fetch fails with an error other than not-found, generate_plan
\* returns no plan, and the failing fetch is the last one: the resources before
\* it were fetched and diffed, none after it is.
C15_FetchFailureAborts ==
    pc = "plan_failed" =>
        LET fetches == FetchCalls(files, resource_types, resource_names)
        IN  /\ plan = None
            /\ Len(calls) >= 1
            /\ Len(calls) <= Len(fetches)
            /\ calls = SubSeq(fetches, 1, Len(calls))
            /\ Len(diffs) = Len(calls) - 1

\* C15 witness: the second of three fetches failed
C15_Witness ==
    /\ pc = "plan_failed"
    /\ Len(calls) = 2
    /\ Len(discover_resources(files, resource_types, resource_names)) = 3

\* the Create and Update items of a plan
Changing(items) == SelectSeq(items, LAMBDA item : item.action \in {CREATE, UPDATE})

\* C16: apply_plan on a plan that holds a Create or Update item without a
\* body: each such item is reported as failed with ApplyError and no handler
\* is invoked for it, every other Create or Update item is still written, and
\* the result is False.
C16_MissingBodyFailsItem ==
    (pc = "applied" /\ \E k \in 1..Len(plan.items) :
                          plan.items[k].action # NO_CHANGE /\ plan.items[k].desired_body = None) =>
        /\ result = PyBool(FALSE)
        /\ Len(Reports) = Len(Changing(plan.items))
        /\ \A k \in 1..Len(Reports) :
              /\ Reports[k].item = Changing(plan.items)[k]
              /\ Reports[k].item.desired_body = None =>
                    Reports[k].status = "FAIL" /\ Reports[k].error = "ApplyError"
              /\ Reports[k].item.desired_body # None => Reports[k].error # "ApplyError"
        /\ Len(puts) = Len(ToWrite(plan.items))
        /\ \A k \in 1..Len(puts) : puts[k].body # None

\* C16 witness: the second of three items had no body; the first and the third
\* were written
C16_Witness ==
    /\ pc = "applied"
    /\ Len(Reports) = 3
    /\ Reports[1].status = "OK"
    /\ Reports[2].error = "ApplyError"
    /\ Reports[3].status = "OK"
    /\ result = PyBool(FALSE)

\* the response does not hold the requested resource
Lacks(handler, name, resp) ==
    /\ resp.raised = ""
    /\ IF handler \in ListKeyed
       THEN ~resp.has_list \/ resp.entries = <<>>
       ELSE \A k \in 1..Len(resp.entries) : resp.entries[k].name # name

StripList(kind) ==
    IF kind = ILM_POLICY
    THEN {"version", "modified_date", "modified_date_millis", "in_use_by"}
    ELSE {"version"}

\* the bodies diff_resource has normalized
DiffedBodies(d) == {d.desired} \cup (IF d.current = None THEN {} ELSE {d.current})

\* C18: for the four kinds other than Index, normalize(body) is body without
\* the keys of the kind's strip list, every other key with its value, and
\* normalizing again changes nothing.
C18_TopLevelNormalize ==
    \A k \in 1..Len(diffs) :
        diffs[k].resource_type # INDEX =>
            \A body \in DiffedBodies(diffs[k]) :
                LET n == Normalized(diffs[k], body)
                IN  /\ DOMAIN n = (DOMAIN body) \ StripList(diffs[k].resource_type)
                    /\ \A key \in DOMAIN n : n[key] = body[key]
                    /\ Normalized(diffs[k], n) = n

\* C18 witness: lifecycle policy bodies with modified_date and another key,
\* and with version and another key, were normalized
C18_Witness ==
    \E k \in 1..Len(diffs) :
        /\ diffs[k].resource_type = ILM_POLICY
        /\ diffs[k].current # None
        /\ DOMAIN diffs[k].current = {"modified_date", "priority"}
        /\ DOMAIN diffs[k].desired = {"version", "priority"}

\* C19: Index normalize returns the body with the eight server-managed fields
\* removed from settings.index and nothing else removed or changed.
C19_IndexNormalize ==
    \A k \in 1..Len(diffs) :
        diffs[k].resource_type = INDEX =>
            \A body \in DiffedBodies(diffs[k]) :
                Normalized(diffs[k], body) = StripListed(INDEX, body)

\* the exit ended a command that was run (the option parser let it through)
Ran == exit # None /\ exit.stage # "usage"

\* what the exit codes of plan and apply tell
ExitCodeContract ==
    /\ (exit.cmd = "plan" /\ exit.stage = "planned") =>
          /\ exit.code = 0 <=> \A k \in 1..Len(plan.items) : plan.items[k].action = NO_CHANGE
          /\ exit.code = 2 <=> \E k \in 1..Len(plan.items) : plan.items[k].action # NO_CHANGE
    /\ exit.stage \in {"config", "fetch"} => exit.code = 1
    /\ (exit.cmd = "plan" /\ exit.code = 2) =>
          plan # None /\ \E k \in 1..Len(plan.items) : plan.items[k].action # NO_CHANGE
    /\ (exit.cmd = "apply" /\ exit.stage = "applied") =>
          /\ exit.code = 1 <=> \E k \in 1..Len(Reports) : Reports[k].status = "FAIL"
          /\ exit.code = 0 <=> \A k \in 1..Len(Reports) : Reports[k].status = "OK"
    /\ exit.code \in {0, 1, 2}

\* C20: however the process ends, plan exits 0 without changes, 2 with changes
\* and only then, 1 on an error; apply exits 1 when an item failed and 0 when
\* all were applied.
C20_ExitCodes ==
    exit # None => ExitCodeContract

\* C20, for the commands the option parser let through: plan exits 0 without
\* changes, 2 with changes and only then, 1 on an error; apply exits 1 when an
\* item failed and 0 when all were applied.
C20_ExitCodesOfCommand ==
    Ran => ExitCodeContract

\* C20 witness: plan exited 2 on a plan with changes
C20_Witness ==
    /\ Ran
    /\ exit.cmd = "plan"
    /\ exit.code = 2
    /\ has_changes(plan)

-----------------------------------------------------------------------------
(* Properties of the Plan views, of the loader and of the exporter *)

\* view keeps the order its items have in items (the items of a plan are
\* distinct: one per resource)
InPlanOrder(view, items) ==
    \A i, j \in 1..Len(view) :
        i < j => \E k, l \in 1..Len(items) : k < l /\ items[k] = view[i] /\ items[l] = view[j]

\* the views of p that hold the k-th item of p
ViewsOf(p, k) ==
    {v \in {"creates", "updates", "unchanged"} :
        \E i \in 1..Len(IF v = "creates" THEN creates(p)
                        ELSE IF v = "updates" THEN updates(p) ELSE unchanged(p)) :
            (IF v = "creates" THEN creates(p)
             ELSE IF v = "updates" THEN updates(p) ELSE unchanged(p))[i] = p.items[k]}

\* C21: the views creates, updates and unchanged of a Plan partition its
\* items: every item is in exactly one view, the one of its action; every
\* view keeps the plan's order; has_changes is true exactly when creates or
\* updates is not empty.
C21_ViewsPartition ==
    plan # None =>
        /\ \A k \in 1..Len(plan.items) :
              ViewsOf(plan, k) = {CASE plan.items[k].action = CREATE -> "creates"
                                    [] plan.items[k].action = UPDATE -> "updates"
                                    [] OTHER -> "unchanged"}
        /\ Len(creates(plan)) + Len(updates(plan)) + Len(unchanged(plan)) = Len(plan.items)
        /\ InPlanOrder(creates(plan), plan.items)
        /\ InPlanOrder(updates(plan), plan.items)
        /\ InPlanOrder(unchanged(plan), plan.items)
        /\ has_changes(plan) <=> (creates(plan) # <<>> \/ updates(plan) # <<>>)

\* a plan with two creations, in plan order, and one item of another view
C21_Witness ==
    /\ plan # None
    /\ Len(plan.items) = 3
    /\ Len(creates(plan)) = 2
    /\ creates(plan)[1] = plan.items[1]
    /\ creates(plan)[2] = plan.items[3]
    /\ Len(updates(plan)) = 1

\* the written state of an item apply_plan reported OK
Written(item) == ServerStore(item.resource_type, item.desired_body)

\* C22: no rollback on partial failure.  While apply_plan runs and when it
\* has returned (False included), every item reported OK, before or after a
\* failing one, is in the cluster as it was written; no delete call and no
\* write beyond one per item is issued; the step of a failing item leaves
\* the cluster as it was.
C22_NoRollback ==
    /\ [](pc \in {"applying", "applied"} =>
            /\ \A k \in 1..Len(Reports) :
                  Reports[k].status = "OK" =>
                      cluster[<<Reports[k].item.resource_type, Reports[k].item.resource_name>>]
                          = Written(Reports[k].item)
            /\ \A k \in 1..Len(calls) : calls[k].api \notin DeleteApis
            /\ Len(SelectSeq(calls, LAMBDA c : c.api \in WriteApis)) <= Len(Reports))
    /\ [][(pc = "applying" /\ Len(console') > Len(console)
            /\ console'[Len(console')].status = "FAIL") => cluster' = cluster]_vars

\* apply_plan returned False after an item written, an item failed and
\* another item written
C22_Witness ==
    /\ pc = "applied"
    /\ result = PyBool(FALSE)
    /\ Len(Reports) = 3
    /\ Reports[1].status = "OK"
    /\ Reports[2].status = "FAIL"
    /\ Reports[3].status = "OK"
    /\ \A k \in {1, 3} :
          cluster[<<Reports[k].item.resource_type, Reports[k].item.resource_name>>]
              = Written(Reports[k].item)

\* the desired resources of the run
Desired == discover_resources(files, resource_types, resource_names)

\* C23: in the output of discover_resources, for every type filter and every
\* name filter, no two entries share name and kind, so that a plan holds no
\* two items for one resource.
C23_NoDuplicateResources ==
    pc = "planned" =>
        /\ \A i, j \in 1..Len(Desired) :
              (Desired[i].name = Desired[j].name
                 /\ Desired[i].resource_type = Desired[j].resource_type) => i = j
        /\ \A i, j \in 1..Len(plan.items) :
              (plan.items[i].resource_name = plan.items[j].resource_name
                 /\ plan.items[i].resource_type = plan.items[j].resource_type) => i = j

\* the place of a kind in the enumeration of the kinds
KindRank(kind) == CHOOSE k \in 1..Len(ResourceType) : ResourceType[k] = kind

\* the place of a name among the sorted names
NameRank(name) == CHOOSE k \in 1..Len(NameOrder) : NameOrder[k] = name

\* C30: discover_resources returns the desired resources sorted by kind and
\* then by name, for every type filter, in whatever order it lists the
\* kinds, and every name filter; the items of the plan follow that order.
C30_SortedByKindThenName ==
    pc = "planned" =>
        /\ \A i, j \in 1..Len(Desired) :
              i < j =>
                  \/ KindRank(Desired[i].resource_type) < KindRank(Desired[j].resource_type)
                  \/ /\ Desired[i].resource_type = Desired[j].resource_type
                     /\ NameRank(Desired[i].name) <= NameRank(Desired[j].name)
        /\ \A i, j \in 1..Len(plan.items) :
              i < j =>
                  \/ KindRank(plan.items[i].resource_type)
                        < KindRank(plan.items[j].resource_type)
                  \/ /\ plan.items[i].resource_type = plan.items[j].resource_type
                     /\ NameRank(plan.items[i].resource_name)
                           <= NameRank(plan.items[j].resource_name)

\* export_resources has returned its ExportResult
Exported == pc = "called" /\ op # None /\ op.method = "export" /\ op.error = ""

\* the resources export_resources lists and the name filter lets through
Listed ==
    {id \in AllIds :
        /\ cluster[id] # None
        /\ id[1] \in Range(IF resource_types # <<>> THEN resource_types ELSE ResourceType)
        /\ ~(resource_names # <<>> /\ id[2] \notin Range(resource_names))}

\* how often a resource is recorded as exported, and as skipped
ExportedCount(id) ==
    Cardinality({k \in 1..Len(op.result.exported) : op.result.exported[k] = id})

SkippedCount(id) ==
    Cardinality({k \in 1..Len(op.result.skipped) :
                    op.result.skipped[k] = <<id[1], id[2], "file already exists">>})

\* C24: export_resources never overwrites an existing file unless force is
\* set.  A listed resource whose file exists, force being false, keeps its
\* file's content and is recorded as skipped; any other listed resource has
\* its normalized body written and is recorded as exported; every listed
\* resource is in exactly one of exported and skipped.
C24_ExportNeverOverwrites ==
    Exported =>
        \A id \in Listed :
            /\ IF id \in DOMAIN op.before /\ ~op.force
               THEN /\ files[id] = op.before[id]
                    /\ SkippedCount(id) > 0
               ELSE /\ id \in DOMAIN files
                    /\ files[id] = normalize(get_handler(id[1]), cluster[id])
                    /\ ExportedCount(id) > 0
            /\ ExportedCount(id) + SkippedCount(id) = 1
            /\ ExportedCount(id) = 0 \/ SkippedCount(id) = 0

C26_SequentialInPlanOrder ==
    /\ [](pc \in {"applying", "applied"} =>
            /\ Len(Reports) = idx
            /\ Len(Attempts(calls)) <= Len(Reports)
            /\ \A k \in 1..Len(Reports) : Reports[k].item = Actionable(plan.items)[k]
            /\ pc = "applied" => Len(Reports) = Len(Actionable(plan.items)))
    /\ [][(pc = "applying" /\ pc' = "applying") =>
            /\ Len(console') = Len(console) + 1
            /\ console'[Len(console')].item = Actionable(plan.items)[Len(console) + 1]
            /\ console'[Len(console')].status \in {"OK", "FAIL"}
            /\ \A k \in Len(calls) + 1..Len(calls') :
                  calls'[k].name = Actionable(plan.items)[Len(console) + 1].resource_name
            /\ SubSeq(calls', 1, Len(calls)) = calls]_vars

\* three items were processed: the calls and the reports follow plan order
C26_Witness ==
    /\ pc = "applied"
    /\ Len(Actionable(plan.items)) = 3
    /\ Len(Reports) = 3
    /\ Len(Attempts(calls)) = 3
    /\ \A k \in 1..3 : Attempts(calls)[k].name = Actionable(plan.items)[k].resource_name
    /\ Reports[2].status = "FAIL"

\* C27: an actionable Index item whose index exists at the moment the item
\* is applied, an index that was absent at plan time and that another actor
\* created since included: apply_plan issues no create call for it, reports
\* the item failed, returns False and leaves the index as it is.
C27_ExistingIndexNotCreated ==
    /\ [][(/\ pc = "applying"
            /\ idx' = idx + 1
            /\ changes[idx + 1].resource_type = INDEX
            /\ cluster[<<INDEX, changes[idx + 1].resource_name>>] # None) =>
              /\ \A k \in Len(calls) + 1..Len(calls') :
                    calls'[k].api # ClientApi("IndexHandler", "create")
              /\ console'[Len(console')].status = "FAIL"
              /\ console'[Len(console')].item = changes[idx + 1]
              /\ all_ok' = FALSE
              /\ cluster' = cluster]_vars
    /\ [](pc = "applied" /\ ~all_ok => result = PyBool(FALSE))

\* an index that generate_plan found absent was created by another actor
\* before apply_plan reached its item: the item failed, the index is the
\* other actor's, apply_plan returned False
C27_Witness ==
    /\ pc = "applied"
    /\ result = PyBool(FALSE)
    /\ \E k \in 1..Len(diffs), r \in 1..Len(Reports) :
          /\ diffs[k].resource_type = INDEX
          /\ diffs[k].current = None
          /\ Reports[r].item.resource_type = INDEX
          /\ Reports[r].item.resource_name = diffs[k].resource_name
          /\ Reports[r].item.action = CREATE
          /\ Reports[r].status = "FAIL"
          /\ Reports[r].error = "IndexUpdateError"
          /\ cluster[<<INDEX, diffs[k].resource_name>>] = OtherActorBody
          /\ \A c \in 1..Len(calls) : calls[c].api # ClientApi("IndexHandler", "create")

\* the apply command stopped before apply_plan
ApplyStopped == exit # None /\ exit.cmd = "apply" /\ exit.stage \in {"no_changes", "aborted"}

\* C28: the apply command writes nothing to the cluster unless the plan has
\* changes and the user approved.  When the plan has no changes, and when
\* the confirmation is declined, apply_plan is never called (no item is
\* filtered, handed to a handler or reported, no write call is made, the
\* step leaves the cluster as it is) and the exit code is 0; the command
\* ends after apply_plan only when the plan had changes.
C28_ApplyOnlyWhenApproved ==
    /\ [](ApplyStopped =>
            /\ exit.code = 0
            /\ exit.stage = "no_changes" <=> \A k \in 1..Len(plan.items) :
                                                 plan.items[k].action = NO_CHANGE
            /\ result = None
            /\ changes = <<>>
            /\ console = <<>>
            /\ puts = <<>>
            /\ \A k \in 1..Len(calls) : calls[k].api \in GetApis)
    /\ []((exit # None /\ exit.cmd = "apply" /\ exit.stage = "applied") =>
            \E k \in 1..Len(plan.items) : plan.items[k].action # NO_CHANGE)
    /\ [][(pc = "planned" /\ pc' = "exited") => cluster' = cluster]_vars

\* the user declined the confirmation of a plan that has changes
C28_Witness ==
    /\ ApplyStopped
    /\ exit.stage = "aborted"
    /\ exit.code = 0
    /\ Len(creates(plan)) > 0
    /\ Len(updates(plan)) > 0
    /\ puts = <<>>

\* body b1 has a key with the value null that body b2 lacks or holds with
\* another value
NullOnlyIn(b1, b2) ==
    \E k \in DOMAIN b1 : b1[k] = JNull /\ (k \notin DOMAIN b2 \/ b2[k] # JNull)

\* C29: a key whose value is null does not count as absent.  When the
\* cluster holds the resource and one normalized body has a null-valued key
\* that the other lacks, or holds with a value that is not null, the result
\* is Update, never NoChange; two empty bodies give NoChange.
C29_NullIsNotAbsent ==
    \A k \in 1..Len(diffs) :
        LET d == diffs[k]
        IN  d.current # None =>
                /\ (\/ NullOnlyIn(Normalized(d, d.desired), Normalized(d, d.current))
                    \/ NullOnlyIn(Normalized(d, d.current), Normalized(d, d.desired))) =>
                       /\ d.action = UPDATE
                       /\ d.diff_details # <<>>
                /\ (d.desired = EmptyDict /\ d.current = EmptyDict) => d.action = NO_CHANGE

\* the desired body holds priority: null alone and the cluster's normalized
\* body is empty: the result is Update
C29_Witness ==
    /\ pc = "planned"
    /\ Len(diffs) = 1
    /\ diffs[1].current # None
    /\ diffs[1].desired = D1("priority", JNull)
    /\ Normalized(diffs[1], diffs[1].current) = EmptyDict
    /\ diffs[1].action = UPDATE

====
